---- MODULE Spec2Model ----
(***************************************************************************)
(* ForecastPro: the transaction ingestion and reconciliation engine.       *)
(*                                                                         *)
(* One account (the default account), its stored transactions and its      *)
(* import batches, and the operations of TransactionService,               *)
(* AccountService, ImportService and the controller-level CSV import.      *)
(* Every operation is a sequence of steps, one per database access (the    *)
(* awaits of the code); any database access may raise.  Amounts are        *)
(* integers, counted in cents.                                             *)
(***************************************************************************)
EXTENDS Integers, Sequences, FiniteSets, TLC

(***************************************************************************)
(* Bounds of the model.                                                    *)
(***************************************************************************)
\* the highest transaction id the store hands out
MaxTxId == 2
\* the highest import batch id the store hands out
MaxBatchId == 2
\* the longest list of transactions one import carries
MaxRows == 2
\* the largest number of parse errors a CSV parse reports
MaxParseErrors == 1
\* the number of operations one behaviour starts
MaxOps == 2
\* the longest text handed to the CSV tokenizer, in characters
MaxLen == 5

\* the caller running operations one after the other
Procs == {"p1"}
\* the callers of requests served at the same time
Concurrent == {"p1", "p2"}

\* absolute amounts, in cents
Amounts == {3}
\* values given as an initial balance or reported as a bank balance
Balances == {10}
\* the digests the time-and-random seeded hashes can take
HashPool == {<<"h1">>, <<"h2">>}
\* the booked dates and descriptions of the bank feed
TinkDates == {"2024-03-01"}
TinkDescriptions == {"CB SHOP"}
TinkIds == {"e1"}
\* the statuses and the error body the bank API answers with
HttpStatuses == {200, 401, 500}
HttpBodies == {"invalid_grant"}
\* "no value": null / undefined
None == "none"

Abs(x) == IF x < 0 THEN -x ELSE x

RECURSIVE SumAmounts(_)
SumAmounts(S) ==
  IF S = {} THEN 0
  ELSE LET t == CHOOSE x \in S : TRUE IN t.amount + SumAmounts(S \ {t})

RECURSIVE SumAbsAmounts(_)
SumAbsAmounts(S) ==
  IF S = {} THEN 0
  ELSE LET t == CHOOSE x \in S : TRUE IN Abs(t.amount) + SumAbsAmounts(S \ {t})

VARIABLES
  started,        \* the number of operations started so far
  transactions,   \* table transactions: records id, importBatchId, amount, type, hash
  batches,        \* table import_batches: records id, status, rowsImported, rowsSkipped
  account,        \* the default account: initialBalance, balance, bank
  nextTxId,       \* the next id of table transactions
  nextBatchId,    \* the next id of table import_batches
  op,             \* per caller: the operation it runs and the locals of that operation
  last            \* the result of the processTinkCallback that returned just before
                  \* the processTinkCallback now running or about to run

vars == <<started, transactions, batches, account, nextTxId, nextBatchId, op, last>>

db == <<transactions, batches, account, nextTxId, nextBatchId>>

(***************************************************************************)
(* Hashes.  forTinkTransaction digests date|amount|description|type and    *)
(* nothing else; the manual and the imported-row hashes also digest        *)
(* Date.now() and Math.random(), so their value is any digest.             *)
(***************************************************************************)
\* a digest that also takes a value changing from call to call, as the manual and the
\* imported-row generators do
forTinkTransactionSeeded(date, amount, description, type) ==
  <<date, amount, description, type, nextTxId>>

forTinkTransaction(date, amount, description, type) ==
  <<date, amount, description, type>>

ManualHashes == HashPool

\* a digest of the content of the row alone: date|label|amount|rowIndex
forRowContent(date, label, amount, rowIndex) ==
  <<date, label, amount, rowIndex>>

\* HashGenerator.forImportedTransaction: date|label|amount|rowIndex|timestamp|random.
\* Date.now() and Math.random() are read anew by every call; the model takes for this
\* part the count of operations started, a value no earlier parse has seen.
forImportedTransaction(date, label, amount, rowIndex) ==
  <<date, label, amount, rowIndex, started>>

(***************************************************************************)
(* The inputs of the operations.                                           *)
(***************************************************************************)
\* what the bank API returns for one transaction, amount already decoded
TinkAmounts == {-3, 0, 5}

\* the amounts of the bank feed that Spec and SpecAll run with
TinkNonZero == TinkAmounts \ {0}

TinkRaw ==
  [id : TinkIds, date : TinkDates, amount : TinkAmounts, description : TinkDescriptions]

\* TinkTransformer.transformTransaction
transformTransaction(raw) ==
  [externalId  |-> raw.id,
   date        |-> raw.date,
   amount      |-> Abs(raw.amount),
   description |-> raw.description,
   type        |-> IF raw.amount >= 0 THEN "credit" ELSE "debit"]

\* a map that digests the externalId into the hash as well
toParsedKeyedById(tx) ==
  [amount     |-> IF tx.type = "credit" THEN tx.amount ELSE -tx.amount,
   type       |-> tx.type,
   hash       |-> <<tx.date, tx.amount, tx.description, tx.type, tx.externalId>>,
   externalId |-> tx.externalId]

\* the map of TransactionService.importFromTink: one ParsedTransactionData
toParsed(tx) ==
  [amount     |-> IF tx.type = "credit" THEN tx.amount ELSE -tx.amount,
   type       |-> tx.type,
   hash       |-> forTinkTransaction(tx.date, tx.amount, tx.description, tx.type),
   externalId |-> tx.externalId]

\* what CsvParser.parseRow returns for a row with a debit column and for one with a
\* credit column: the debit negative, the hash any digest of HashPool
CsvParsed ==
  { [amount |-> -3, type |-> "debit", hash |-> <<"h1">>],
    [amount |-> 5, type |-> "credit", hash |-> <<"h2">>] }

SeqsUpTo(S, n) == UNION { [1..k -> S] : k \in 0..n }

\* the data lines of a CSV file after the header: a date, a label, and an amount in the
\* debit column (here negative) or in the credit column
CsvLines ==
  { [date |-> "01/02/2024", label |-> "CARTE", amount |-> -3, type |-> "debit"],
    [date |-> "01/02/2024", label |-> "CARTE", amount |-> 5, type |-> "credit"] }

\* CsvParser.parse on well-formed lines: parseRow on the line of index i, the header
\* being row 0
parseLines(lines) ==
  [i \in 1..Len(lines) |->
     [amount |-> lines[i].amount,
      type   |-> lines[i].type,
      hash   |-> forImportedTransaction(lines[i].date, lines[i].label, lines[i].amount, i)]]

(***************************************************************************)
(* Repositories.                                                           *)
(***************************************************************************)
\* a lookup that finds nothing
findNothing(txs, h) == {}

\* TransactionRepository.findByHash: a stored transaction with this hash, if any
findByHash(txs, h) == { t \in txs : t.hash = h }

\* the unique index of column transactions.hash
NoUniqueIndex(txs, h) == TRUE

HashIsFree(txs, h) == \A t \in txs : t.hash # h

\* TransactionRepository.sumByType
sumByType(txs, type) == SumAmounts({ t \in txs : t.type = type })

\* Money: the constructor rounds to cents, add and subtract work on cents
MoneyAdd(a, b) == a + b

MoneySubtract(a, b) == a - b

\* the sum of the debits taken as stored, negative
calculateWithoutAbs(acc, txs) ==
  MoneySubtract(MoneyAdd(acc.initialBalance, sumByType(txs, "credit")),
                sumByType(txs, "debit"))

\* BalanceCalculator.calculateForAccount
calculateForAccount(acc, txs) ==
  MoneySubtract(MoneyAdd(acc.initialBalance, sumByType(txs, "credit")),
                Abs(sumByType(txs, "debit")))

(***************************************************************************)
(* The locals of one operation.  An optional value is a sequence of        *)
(* length 0 (null, undefined) or 1.                                        *)
(***************************************************************************)
IdleOp ==
  [pc           |-> "idle",
   kind         |-> None,    \* which operation runs
   rows         |-> <<>>,    \* transactions: ParsedTransactionData[]
   idx          |-> 1,       \* the position of the for loop in rows
   imported     |-> 0,
   skipped      |-> 0,
   errors       |-> <<>>,    \* errors: string[], each the position of the failed row
   parseErrors  |-> 0,       \* the number of parse errors of the CSV parser
   batchId      |-> 0,       \* batch.id, 0 while no batch was created
   target       |-> 0,       \* transactionId of delete
   value        |-> <<>>,    \* initialBalance of updateInitialBalance, updateSettings
   readable     |-> TRUE,    \* whether the uploaded file has content
   newBalance   |-> 0,       \* newBalance of recalculateForAccount
   tinkBalance  |-> <<>>,    \* tinkAccount?.balance
   thrownAt     |-> None,    \* the step whose exception left the operation
   error        |-> None,    \* the class of that exception when the code names one
   requests     |-> 0,       \* the number of requests sent to the bank API
   status       |-> 0,       \* the HTTP status of the last answer of the bank API
   body         |-> None,    \* the body of that answer when it was an error
   recalculated |-> FALSE,   \* recalculateForAccount ran to its end
   adjustFailed |-> FALSE,   \* the catch of adjustInitialBalanceFromTink ran
   fresh        |-> FALSE]   \* no hash of rows was stored when the batch was created

NoLast ==
  [kind |-> None, rows |-> <<>>, imported |-> 0, skipped |-> 0, nerrors |-> 0,
   batchId |-> 0, fresh |-> FALSE]

Init ==
  /\ started = 0
  /\ transactions = {}
  /\ batches = {}
  /\ account = [initialBalance |-> 0, balance |-> 0, bank |-> None]
  /\ nextTxId = 1
  /\ nextBatchId = 1
  /\ op = [p \in Concurrent |-> IdleOp]
  /\ last = NoLast

\* no operation is running: operations do not overlap
Free == \A q \in Concurrent : op[q].pc = "idle"

\* a caller starts an operation when none is running
Begin(p) ==
  /\ op[p].pc = "idle"
  /\ Free
  /\ started < MaxOps
  /\ started' = started + 1

\* a caller starts an operation while another may be running one
BeginConcurrent(p) ==
  /\ op[p].pc = "idle"
  /\ started < MaxOps
  /\ started' = started + 1

\* an exception leaves the operation: its locals are gone, the batch it created stays
Throw(o) ==
  [IdleOp EXCEPT !.pc = "done", !.kind = o.kind, !.thrownAt = o.pc, !.batchId = o.batchId]

(***************************************************************************)
(* BalanceCalculator.recalculateForAccount                                 *)
(***************************************************************************)
RecalcRead(p) ==
  LET o == op[p] IN
  /\ o.pc = "recalc_read"
  /\ op' = [op EXCEPT ![p] = [o EXCEPT !.pc = "recalc_write",
                                       !.newBalance = calculateForAccount(account, transactions)]]
  /\ UNCHANGED <<started, db, last>>

\* what follows recalculateForAccount in the operation that called it
AfterRecalc(o) ==
  IF o.kind = "tink" /\ o.tinkBalance # <<>> THEN "adjust"
  ELSE IF o.kind = "adjustBalance" /\ ~o.recalculated THEN "recalc_read"
  ELSE "done"

RecalcWrite(p) ==
  LET o == op[p] IN
  /\ o.pc = "recalc_write"
  /\ account' = [account EXCEPT !.balance = o.newBalance]
  /\ op' = [op EXCEPT ![p] = [o EXCEPT !.pc = AfterRecalc(o), !.recalculated = TRUE]]
  /\ UNCHANGED <<started, transactions, batches, nextTxId, nextBatchId, last>>

(***************************************************************************)
(* TransactionService.create                                               *)
(***************************************************************************)
\* the signed amount of a manual entry
createAmount(type, amount) == IF type = "credit" THEN Abs(amount) ELSE -Abs(amount)

Create(p, type, amount, hash) ==
  /\ Begin(p)
  /\ nextTxId <= MaxTxId
  /\ op' = [op EXCEPT ![p] = [IdleOp EXCEPT !.pc = "create_find", !.kind = "create",
        !.rows = << [amount |-> createAmount(type, amount), type |-> type, hash |-> hash] >>]]
  /\ last' = NoLast
  /\ UNCHANGED db

\* throw new DuplicateTransactionError()
ThrowDuplicate(o) == [Throw(o) EXCEPT !.error = "DuplicateTransactionError", !.rows = o.rows]

\* findByHash, and DuplicateTransactionError when it finds one
CreateFind(p) ==
  LET o == op[p] IN
  /\ o.pc = "create_find"
  /\ op' = [op EXCEPT ![p] =
        IF findByHash(transactions, o.rows[1].hash) # {} THEN ThrowDuplicate(o)
        ELSE [o EXCEPT !.pc = "create_insert"]]
  /\ UNCHANGED <<started, db, last>>

\* the row Transaction.create stores
NewTransaction(id, batchId, data) ==
  [id |-> id, importBatchId |-> batchId, amount |-> data.amount, type |-> data.type,
   hash |-> data.hash, category |-> None]

CreateInsert(p) ==
  LET o == op[p] IN
  /\ o.pc = "create_insert"
  /\ IF HashIsFree(transactions, o.rows[1].hash)
     THEN /\ transactions' = transactions \cup {NewTransaction(nextTxId, 0, o.rows[1])}
          /\ nextTxId' = nextTxId + 1
          /\ op' = [op EXCEPT ![p] = [o EXCEPT !.pc = "recalc_read"]]
     ELSE /\ op' = [op EXCEPT ![p] = Throw(o)]
          /\ UNCHANGED <<transactions, nextTxId>>
  /\ UNCHANGED <<started, batches, account, nextBatchId, last>>

(***************************************************************************)
(* TransactionService.delete                                               *)
(***************************************************************************)
Delete(p, id) ==
  /\ Begin(p)
  /\ op' = [op EXCEPT ![p] = [IdleOp EXCEPT !.pc = "delete_find", !.kind = "delete",
                                            !.target = id]]
  /\ last' = NoLast
  /\ UNCHANGED db

DeleteFind(p) ==
  LET o == op[p] IN
  /\ o.pc = "delete_find"
  /\ op' = [op EXCEPT ![p] =
        IF \E t \in transactions : t.id = o.target
        THEN [o EXCEPT !.pc = "delete_row"] ELSE Throw(o)]
  /\ UNCHANGED <<started, db, last>>

DeleteRow(p) ==
  LET o == op[p] IN
  /\ o.pc = "delete_row"
  /\ transactions' = { t \in transactions : t.id # o.target }
  /\ op' = [op EXCEPT ![p] = [o EXCEPT !.pc = "recalc_read"]]
  /\ UNCHANGED <<started, batches, account, nextTxId, nextBatchId, last>>

(***************************************************************************)
(* TransactionService.updateCategory                                       *)
(***************************************************************************)
\* the categories a request can carry; null removes the category
Categories == {"courses", None}

\* a merge that also overwrites the amount
mergeCategoryAndAmount(t, category) == [t EXCEPT !.category = category, !.amount = 0]

\* transaction.merge({ category })
mergeCategory(t, category) == [t EXCEPT !.category = category]

UpdateCategory(p, id, category) ==
  /\ Begin(p)
  /\ op' = [op EXCEPT ![p] = [IdleOp EXCEPT !.pc = "category_find", !.kind = "updateCategory",
                                            !.target = id, !.value = <<category>>]]
  /\ last' = NoLast
  /\ UNCHANGED db

\* findById of TransactionRepository.update; null makes updateCategory throw
CategoryFind(p) ==
  LET o == op[p] IN
  /\ o.pc = "category_find"
  /\ op' = [op EXCEPT ![p] =
        IF \E t \in transactions : t.id = o.target
        THEN [o EXCEPT !.pc = "category_save"]
        ELSE [Throw(o) EXCEPT !.error = "Transaction non trouvee", !.target = o.target]]
  /\ UNCHANGED <<started, db, last>>

\* merge and save
CategorySave(p) ==
  LET o == op[p] IN
  /\ o.pc = "category_save"
  /\ transactions' = { IF t.id = o.target THEN mergeCategory(t, o.value[1]) ELSE t :
                         t \in transactions }
  /\ op' = [op EXCEPT ![p] = [o EXCEPT !.pc = "done"]]
  /\ UNCHANGED <<started, batches, account, nextTxId, nextBatchId, last>>

(***************************************************************************)
(* AccountService.updateInitialBalance, updateSettings, resetAccount       *)
(***************************************************************************)
UpdateInitialBalance(p, b) ==
  /\ Begin(p)
  /\ op' = [op EXCEPT ![p] = [IdleOp EXCEPT !.pc = "initial_write", !.kind = "updateInitialBalance",
                                            !.value = <<b>>]]
  /\ last' = NoLast
  /\ UNCHANGED db

\* settings.initialBalance is optional
UpdateSettings(p, v) ==
  /\ Begin(p)
  /\ op' = [op EXCEPT ![p] = [IdleOp EXCEPT !.pc = "initial_write", !.kind = "updateSettings",
                                            !.value = v]]
  /\ last' = NoLast
  /\ UNCHANGED db

\* AccountRepository.updateInitialBalance, skipped when the value is undefined
InitialWrite(p) ==
  LET o == op[p] IN
  /\ o.pc = "initial_write"
  /\ account' = IF o.value = <<>> THEN account
                ELSE [account EXCEPT !.initialBalance = o.value[1]]
  /\ op' = [op EXCEPT ![p] = [o EXCEPT !.pc = "recalc_read"]]
  /\ UNCHANGED <<started, transactions, batches, nextTxId, nextBatchId, last>>

ResetAccount(p) ==
  /\ Begin(p)
  /\ op' = [op EXCEPT ![p] = [IdleOp EXCEPT !.pc = "reset_transactions", !.kind = "resetAccount"]]
  /\ last' = NoLast
  /\ UNCHANGED db

\* TransactionRepository.deleteByAccountId
ResetTransactions(p) ==
  LET o == op[p] IN
  /\ o.pc = "reset_transactions"
  /\ transactions' = {}
  /\ op' = [op EXCEPT ![p] = [o EXCEPT !.pc = "reset_batches"]]
  /\ UNCHANGED <<started, batches, account, nextTxId, nextBatchId, last>>

\* ImportBatchRepository.deleteByAccountId
ResetBatches(p) ==
  LET o == op[p] IN
  /\ o.pc = "reset_batches"
  /\ batches' = {}
  /\ op' = [op EXCEPT ![p] = [o EXCEPT !.pc = "reset_state"]]
  /\ UNCHANGED <<started, transactions, account, nextTxId, nextBatchId, last>>

\* AccountRepository.resetToInitialState
ResetState(p) ==
  LET o == op[p] IN
  /\ o.pc = "reset_state"
  /\ account' = [account EXCEPT !.balance = account.initialBalance, !.bank = None]
  /\ op' = [op EXCEPT ![p] = [o EXCEPT !.pc = "done"]]
  /\ UNCHANGED <<started, transactions, batches, nextTxId, nextBatchId, last>>

(***************************************************************************)
(* TransactionService.importBatch                                          *)
(***************************************************************************)
\* ImportBatchRepository.create, with the status the caller passes
NewBatch(id, status) ==
  [id |-> id, status |-> status, rowsImported |-> 0, rowsSkipped |-> 0]

BatchCreate(p) ==
  LET o == op[p] IN
  /\ o.pc = "batch_create"
  /\ batches' = batches \cup {NewBatch(nextBatchId, "processing")}
  /\ nextBatchId' = nextBatchId + 1
  /\ op' = [op EXCEPT ![p] = [o EXCEPT
        !.pc = IF o.rows = <<>> THEN "import_complete" ELSE "import_find",
        !.batchId = nextBatchId,
        !.fresh = \A i \in 1..Len(o.rows) : findByHash(transactions, o.rows[i].hash) = {}]]
  /\ UNCHANGED <<started, transactions, account, nextTxId, last>>

\* the for loop moves to the next transaction, or ends
NextRow(o) ==
  [o EXCEPT !.idx = o.idx + 1,
            !.pc = IF o.idx + 1 > Len(o.rows) THEN "import_complete" ELSE "import_find"]

\* a failed row counted as skipped as well
RowCatchCounted(o) ==
  NextRow([o EXCEPT !.errors = Append(o.errors, o.idx), !.skipped = o.skipped + 1])

\* a failed row leaving the loop
RowCatchAbort(o) == Throw(o)

\* the catch of the loop body: one message, naming the transaction that failed
RowCatch(o) == NextRow([o EXCEPT !.errors = Append(o.errors, o.idx)])

\* findByHash of the loop body: skipped++ and continue when it finds one
ImportFind(p) ==
  LET o == op[p] IN
  /\ o.pc = "import_find"
  /\ op' = [op EXCEPT ![p] =
        IF findByHash(transactions, o.rows[o.idx].hash) # {}
        THEN NextRow([o EXCEPT !.skipped = o.skipped + 1])
        ELSE [o EXCEPT !.pc = "import_insert"]]
  /\ UNCHANGED <<started, db, last>>

\* transactionRepo.create of the loop body, then imported++
ImportInsert(p) ==
  LET o == op[p] IN
  /\ o.pc = "import_insert"
  /\ IF HashIsFree(transactions, o.rows[o.idx].hash)
     THEN /\ transactions' =
               transactions \cup {NewTransaction(nextTxId, o.batchId, o.rows[o.idx])}
          /\ nextTxId' = nextTxId + 1
          /\ op' = [op EXCEPT ![p] = NextRow([o EXCEPT !.imported = o.imported + 1])]
     ELSE /\ op' = [op EXCEPT ![p] = RowCatch(o)]
          /\ UNCHANGED <<transactions, nextTxId>>
  /\ UNCHANGED <<started, batches, account, nextBatchId, last>>

\* ImportBatchRepository.markCompleted: null when the batch is gone
markCompleted(bs, id, imported, skipped) ==
  { IF b.id = id
    THEN [b EXCEPT !.status = "completed", !.rowsImported = imported, !.rowsSkipped = skipped]
    ELSE b : b \in bs }

\* the recalculation left out when nothing was imported
AfterCompletedIfImported(o) == IF o.imported = 0 THEN "done" ELSE "recalc_read"

\* what follows markCompleted in importBatch
AfterCompleted(o) == "recalc_read"

ImportComplete(p) ==
  LET o == op[p] IN
  /\ o.pc = "import_complete"
  /\ batches' = markCompleted(batches, o.batchId, o.imported, o.skipped)
  /\ op' = [op EXCEPT ![p] = [o EXCEPT !.pc = AfterCompleted(o)]]
  /\ UNCHANGED <<started, transactions, account, nextTxId, nextBatchId, last>>

\* every transaction of an import can get an id within the bound
Fits(rows) == nextTxId + Len(rows) - 1 <= MaxTxId

(***************************************************************************)
(* ImportService.importFromCsv                                             *)
(***************************************************************************)
\* the early return: the parser found no transaction and at least one error
NothingParsed(rows, parseErrors) == rows = <<>> /\ parseErrors > 0

\* the parse, and the early return or the way to importBatch
EnterImportFromCsv(p, rows, parseErrors) ==
  /\ nextBatchId <= MaxBatchId
  /\ Fits(rows)
  /\ op' = [op EXCEPT ![p] = [IdleOp EXCEPT
        !.pc = IF NothingParsed(rows, parseErrors) THEN "done" ELSE "batch_create",
        !.kind = "csv", !.rows = rows, !.parseErrors = parseErrors]]
  /\ last' = NoLast
  /\ UNCHANGED db

ImportFromCsv(p, rows, parseErrors) ==
  /\ Begin(p)
  /\ EnterImportFromCsv(p, rows, parseErrors)

\* importFromCsv called while another request may be running
ImportFromCsvConcurrently(p, rows, parseErrors) ==
  /\ BeginConcurrent(p)
  /\ EnterImportFromCsv(p, rows, parseErrors)

\* importFromCsv on the content of a file: the parse, then the import of what it returns
ImportCsvFile(p, lines) ==
  /\ Begin(p)
  /\ EnterImportFromCsv(p, parseLines(lines), 0)

(***************************************************************************)
(* ImportService.processTinkCallback                                       *)
(***************************************************************************)
\* importFromTink maps what the transformer returns
importFromTinkRows(raws) ==
  [i \in 1..Len(raws) |-> toParsed(transformTransaction(raws[i]))]

ProcessTinkCallback(p, raws, balance) ==
  /\ Begin(p)
  /\ nextBatchId <= MaxBatchId
  /\ Fits(importFromTinkRows(raws))
  /\ op' = [op EXCEPT ![p] = [IdleOp EXCEPT !.pc = "tink_token", !.kind = "tink",
        !.rows = importFromTinkRows(raws), !.tinkBalance = balance]]
  /\ UNCHANGED <<db, last>>

\* exchangeCodeForToken, getAccounts, getTransactions: one request each, in this order
FetchSteps == {"tink_token", "tink_accounts", "tink_transactions"}

AfterFetch(pc) ==
  CASE pc = "tink_token" -> "tink_accounts"
    [] pc = "tink_accounts" -> "tink_transactions"
    [] OTHER -> "tink_bank_info"

\* response.ok
IsOk(status) == status \in 200..299

\* an answer that is not 2xx taken as an answer
IgnoreHttp(o, status, body) == [o EXCEPT !.pc = AfterFetch(o.pc)]

\* throw new Error(`... (${response.status}): ${errorText}`)
ThrowHttp(o, status, body) ==
  [Throw(o) EXCEPT !.error = "Error", !.requests = o.requests, !.status = status,
                   !.body = body]

\* one fetch of the bank API and its answer
TinkFetch(p, status, body) ==
  LET o == op[p]
      r == [o EXCEPT !.requests = o.requests + 1, !.status = status]
  IN
  /\ o.pc \in FetchSteps
  /\ op' = [op EXCEPT ![p] =
        IF IsOk(status) THEN [r EXCEPT !.pc = AfterFetch(o.pc)]
        ELSE ThrowHttp(r, status, body)]
  /\ UNCHANGED <<started, db, last>>

\* accountService.updateBankInfo, when the bank returned an account
UpdateBankInfo(p) ==
  LET o == op[p] IN
  /\ o.pc = "tink_bank_info"
  /\ account' = IF o.tinkBalance = <<>> THEN account ELSE [account EXCEPT !.bank = "Tink"]
  /\ op' = [op EXCEPT ![p] = [o EXCEPT !.pc = "batch_create"]]
  /\ UNCHANGED <<started, transactions, batches, nextTxId, nextBatchId, last>>

\* the sums taken over the imported transactions only
adjustedFromImported(acc, txs, tinkBalance) ==
  LET imported == { t \in txs : t.importBatchId # 0 }
      credits  == sumByType(imported, "credit")
      debits   == Abs(sumByType(imported, "debit"))
  IN [acc EXCEPT !.initialBalance = tinkBalance - credits + debits,
                 !.balance = tinkBalance]

\* adjustInitialBalanceFromTink: the values account.save() writes
adjustedAccount(acc, txs, tinkBalance) ==
  LET credits == sumByType(txs, "credit")
      debits  == Abs(sumByType(txs, "debit"))
  IN [acc EXCEPT !.initialBalance = tinkBalance - credits + debits,
                 !.balance = tinkBalance]

Adjust(p) ==
  LET o == op[p] IN
  /\ o.pc = "adjust"
  /\ account' = adjustedAccount(account, transactions, o.tinkBalance[1])
  /\ op' = [op EXCEPT ![p] = [o EXCEPT !.pc = "done"]]
  /\ UNCHANGED <<started, transactions, batches, nextTxId, nextBatchId, last>>

\* the exception of the back-solve reaching the caller
AdjustRethrow(o) == Throw(o)

\* the catch of adjustInitialBalanceFromTink: logged, not rethrown
AdjustCatch(o) == [o EXCEPT !.pc = "done", !.adjustFailed = TRUE]

(***************************************************************************)
(* BankConnectionsController.adjustBalance: the two sums, updateSettings   *)
(* with the new initialBalance (which recalculates), then                  *)
(* recalculateForAccount once more.                                        *)
(***************************************************************************)
\* a new initial balance that leaves the debits out
newInitialBalanceCreditsOnly(txs, tinkBalance) == tinkBalance - sumByType(txs, "credit")

\* newInitialBalance = parseFloat(tinkBalance) - credits + debits
newInitialBalance(txs, tinkBalance) ==
  tinkBalance - sumByType(txs, "credit") + Abs(sumByType(txs, "debit"))

AdjustBalance(p, tinkBalance) ==
  /\ Begin(p)
  /\ op' = [op EXCEPT ![p] = [IdleOp EXCEPT !.pc = "adjust_sums", !.kind = "adjustBalance",
                                            !.tinkBalance = <<tinkBalance>>]]
  /\ last' = NoLast
  /\ UNCHANGED db

\* the two SUM queries and the value handed to updateSettings
AdjustSums(p) ==
  LET o == op[p] IN
  /\ o.pc = "adjust_sums"
  /\ op' = [op EXCEPT ![p] = [o EXCEPT
        !.pc = "initial_write",
        !.value = <<newInitialBalance(transactions, o.tinkBalance[1])>>]]
  /\ UNCHANGED <<started, db, last>>

(***************************************************************************)
(* ImportsController.store: the controller-level CSV import                *)
(***************************************************************************)
ControllerStore(p, rows, readable) ==
  /\ Begin(p)
  /\ nextBatchId <= MaxBatchId
  /\ Fits(rows)
  /\ op' = [op EXCEPT ![p] = [IdleOp EXCEPT !.pc = "ctl_batch", !.kind = "controller",
                                            !.rows = rows, !.readable = readable]]
  /\ last' = NoLast
  /\ UNCHANGED db

\* ImportBatch.create, before the try
CtlBatch(p) ==
  LET o == op[p] IN
  /\ o.pc = "ctl_batch"
  /\ batches' = batches \cup {NewBatch(nextBatchId, "processing")}
  /\ nextBatchId' = nextBatchId + 1
  /\ op' = [op EXCEPT ![p] = [o EXCEPT !.pc = "ctl_read", !.batchId = nextBatchId]]
  /\ UNCHANGED <<started, transactions, account, nextTxId, last>>

\* readFile, and the throw on an empty content
CtlRead(p) ==
  LET o == op[p] IN
  /\ o.pc = "ctl_read"
  /\ op' = [op EXCEPT ![p] = [o EXCEPT !.pc = IF o.readable THEN "ctl_insert" ELSE "ctl_fail"]]
  /\ UNCHANGED <<started, db, last>>

\* the inserts of db.transaction: all of them, or none when one raises
RECURSIVE insertAll(_, _, _, _)
insertAll(txs, rows, id, batchId) ==
  IF rows = <<>> THEN [ok |-> TRUE, txs |-> txs]
  ELSE IF HashIsFree(txs, Head(rows).hash)
       THEN insertAll(txs \cup {NewTransaction(id, batchId, Head(rows))},
                      Tail(rows), id + 1, batchId)
       ELSE [ok |-> FALSE, txs |-> txs]

CtlInsert(p) ==
  LET o == op[p]
      r == insertAll(transactions, o.rows, nextTxId, o.batchId)
  IN
  /\ o.pc = "ctl_insert"
  /\ IF r.ok
     THEN /\ transactions' = r.txs
          /\ nextTxId' = nextTxId + Len(o.rows)
          /\ op' = [op EXCEPT ![p] = [o EXCEPT !.pc = "ctl_complete", !.imported = Len(o.rows)]]
     ELSE /\ op' = [op EXCEPT ![p] = [o EXCEPT !.pc = "ctl_fail"]]
          /\ UNCHANGED <<transactions, nextTxId>>
  /\ UNCHANGED <<started, batches, account, nextBatchId, last>>

\* batch.save() of the controller: the fields it set
saveBatch(bs, id, status, imported) ==
  { IF b.id = id
    THEN [b EXCEPT !.status = status, !.rowsImported = imported, !.rowsSkipped = 0]
    ELSE b : b \in bs }

CtlComplete(p) ==
  LET o == op[p] IN
  /\ o.pc = "ctl_complete"
  /\ batches' = saveBatch(batches, o.batchId, "completed", Len(o.rows))
  /\ op' = [op EXCEPT ![p] = [o EXCEPT !.pc = "ctl_balance"]]
  /\ UNCHANGED <<started, transactions, account, nextTxId, nextBatchId, last>>

\* the balance the controller computes: initialBalance + credits - debits
controllerBalance(acc, txs) ==
  acc.initialBalance + sumByType(txs, "credit") - sumByType(txs, "debit")

CtlBalance(p) ==
  LET o == op[p] IN
  /\ o.pc = "ctl_balance"
  /\ account' = [account EXCEPT !.balance = controllerBalance(account, transactions)]
  /\ op' = [op EXCEPT ![p] = [o EXCEPT !.pc = "done"]]
  /\ UNCHANGED <<started, transactions, batches, nextTxId, nextBatchId, last>>

\* the catch of the controller: batch.status = 'failed', saved with the counters the
\* try block had assigned before the exception
failBatch(bs, id, imported) ==
  { IF b.id = id THEN [b EXCEPT !.status = "failed", !.rowsImported = imported] ELSE b :
      b \in bs }

CtlFail(p) ==
  LET o == op[p] IN
  /\ o.pc = "ctl_fail"
  /\ batches' = failBatch(batches, o.batchId, o.imported)
  /\ op' = [op EXCEPT ![p] = [o EXCEPT !.pc = "done"]]
  /\ UNCHANGED <<started, transactions, account, nextTxId, nextBatchId, last>>

(***************************************************************************)
(* A database access, a file read or an API call raises instead of         *)
(* taking effect.                                                          *)
(***************************************************************************)
RowSteps == {"import_find", "import_insert"}

ControllerTrySteps == {"ctl_read", "ctl_insert", "ctl_complete", "ctl_balance"}

ThrowingSteps ==
  {"create_find", "create_insert", "delete_find", "delete_row", "initial_write",
   "reset_transactions", "reset_batches", "reset_state", "batch_create",
   "import_complete", "recalc_read", "recalc_write", "tink_token", "tink_accounts",
   "tink_transactions", "tink_bank_info", "ctl_batch", "ctl_fail", "adjust_sums",
   "category_find", "category_save"}

\* where the exception of a step is caught, or that it leaves the operation
OnRaise(o) ==
  CASE o.pc \in RowSteps -> RowCatch(o)
    [] o.pc = "adjust" -> AdjustCatch(o)
    [] o.pc \in ControllerTrySteps -> [o EXCEPT !.pc = "ctl_fail"]
    [] OTHER -> Throw(o)

Raise(p) ==
  LET o == op[p] IN
  /\ o.pc \in RowSteps \cup {"adjust"} \cup ControllerTrySteps \cup ThrowingSteps
  /\ op' = [op EXCEPT ![p] = OnRaise(o)]
  /\ UNCHANGED <<started, db, last>>

(***************************************************************************)
(* The operation returns to its caller, or its exception reaches it.       *)
(***************************************************************************)
ResultOf(o) ==
  IF o.kind = "tink" /\ o.thrownAt = None /\ Len(o.rows) = 1
  THEN [kind |-> o.kind, rows |-> o.rows, imported |-> o.imported, skipped |-> o.skipped,
        nerrors |-> Len(o.errors), batchId |-> o.batchId, fresh |-> o.fresh]
  ELSE NoLast

Return(p) ==
  /\ op[p].pc = "done"
  /\ last' = ResultOf(op[p])
  /\ op' = [op EXCEPT ![p] = IdleOp]
  /\ UNCHANGED <<started, db>>

(***************************************************************************)
(* Specifications.  Spec: the operations of the services, one at a time.   *)
(* SpecAll: the same with the controller-level import beside them.         *)
(***************************************************************************)
\* the lists a CSV parse and the bank API can hand over
CsvInputs == SeqsUpTo(CsvParsed, MaxRows)

TinkInputs == SeqsUpTo({ r \in TinkRaw : r.amount \in TinkNonZero }, MaxRows)

\* the same with the transactions of amount 0 the bank API can return
TinkInputsAny == SeqsUpTo(TinkRaw, MaxRows)

Start(p) ==
  \/ \E ty \in {"debit", "credit"}, a \in Amounts, h \in ManualHashes : Create(p, ty, a, h)
  \/ \E id \in 1..MaxTxId : Delete(p, id)
  \/ \E b \in Balances : UpdateInitialBalance(p, b)
  \/ \E v \in SeqsUpTo(Balances, 1) : UpdateSettings(p, v)
  \/ ResetAccount(p)
  \/ \E rows \in CsvInputs, n \in 0..MaxParseErrors : ImportFromCsv(p, rows, n)
  \/ \E raws \in TinkInputs, b \in SeqsUpTo(Balances, 1) : ProcessTinkCallback(p, raws, b)

Step(p) ==
  \/ CreateFind(p) \/ CreateInsert(p)
  \/ DeleteFind(p) \/ DeleteRow(p)
  \/ InitialWrite(p)
  \/ ResetTransactions(p) \/ ResetBatches(p) \/ ResetState(p)
  \/ BatchCreate(p) \/ ImportFind(p) \/ ImportInsert(p) \/ ImportComplete(p)
  \/ RecalcRead(p) \/ RecalcWrite(p)
  \/ \E status \in HttpStatuses, body \in HttpBodies : TinkFetch(p, status, body)
  \/ UpdateBankInfo(p) \/ Adjust(p)
  \/ Raise(p)
  \/ Return(p)

StartController(p) ==
  \E rows \in CsvInputs, r \in BOOLEAN : ControllerStore(p, rows, r)

StepController(p) ==
  CtlBatch(p) \/ CtlRead(p) \/ CtlInsert(p) \/ CtlComplete(p) \/ CtlBalance(p) \/ CtlFail(p)

Next == \E p \in Procs : Start(p) \/ Step(p)

NextAll == \E p \in Procs : Start(p) \/ Step(p) \/ StartController(p) \/ StepController(p)

Spec == Init /\ [][Next]_vars

SpecAll == Init /\ [][NextAll]_vars

(***************************************************************************)
(* SpecIngest: the three ingestion paths of the services alone, manual     *)
(* create, CSV import and bank import, the bank feed with every amount it  *)
(* can carry.                                                              *)
(***************************************************************************)
StartIngest(p) ==
  \/ \E ty \in {"debit", "credit"}, a \in Amounts, h \in ManualHashes : Create(p, ty, a, h)
  \/ \E rows \in CsvInputs, n \in 0..MaxParseErrors : ImportFromCsv(p, rows, n)
  \/ \E raws \in TinkInputsAny, b \in SeqsUpTo(Balances, 1) : ProcessTinkCallback(p, raws, b)

StepIngest(p) ==
  \/ CreateFind(p) \/ CreateInsert(p)
  \/ BatchCreate(p) \/ ImportFind(p) \/ ImportInsert(p) \/ ImportComplete(p)
  \/ RecalcRead(p) \/ RecalcWrite(p)
  \/ \E status \in HttpStatuses, body \in HttpBodies : TinkFetch(p, status, body)
  \/ UpdateBankInfo(p) \/ Adjust(p)
  \/ Raise(p)
  \/ Return(p)

NextIngest == \E p \in Procs : StartIngest(p) \/ StepIngest(p)

SpecIngest == Init /\ [][NextIngest]_vars

(***************************************************************************)
(* SpecConcurrent: CSV imports of two callers, their steps interleaved.    *)
(* Nothing in the code holds a lock or a database transaction around       *)
(* importBatch or recalculateForAccount: every await is a point where the  *)
(* other request runs.                                                     *)
(***************************************************************************)
StartConcurrent(p) ==
  \E rows \in CsvInputs, n \in 0..MaxParseErrors : ImportFromCsvConcurrently(p, rows, n)

StepConcurrent(p) ==
  \/ BatchCreate(p) \/ ImportFind(p) \/ ImportInsert(p) \/ ImportComplete(p)
  \/ RecalcRead(p) \/ RecalcWrite(p)
  \/ Return(p)

NextConcurrent == \E p \in Concurrent : StartConcurrent(p) \/ StepConcurrent(p)

SpecConcurrent == Init /\ [][NextConcurrent]_vars

(***************************************************************************)
(* SpecReimport: CSV files imported one after the other, each parsed by    *)
(* the import that receives it, beside manual creations.                   *)
(***************************************************************************)
CsvFiles == SeqsUpTo(CsvLines, MaxRows)

StartReimport(p) ==
  \/ \E lines \in CsvFiles : ImportCsvFile(p, lines)
  \/ \E ty \in {"debit", "credit"}, a \in Amounts, h \in ManualHashes : Create(p, ty, a, h)

StepReimport(p) ==
  \/ CreateFind(p) \/ CreateInsert(p)
  \/ BatchCreate(p) \/ ImportFind(p) \/ ImportInsert(p) \/ ImportComplete(p)
  \/ RecalcRead(p) \/ RecalcWrite(p)
  \/ Raise(p)
  \/ Return(p)

NextReimport == \E p \in Procs : StartReimport(p) \/ StepReimport(p)

SpecReimport == Init /\ [][NextReimport]_vars

(***************************************************************************)
(* Properties.                                                             *)
(***************************************************************************)
storedCredits == { t \in transactions : t.type = "credit" }

storedDebits == { t \in transactions : t.type = "debit" }

\* initialBalance + the sum of the credits - the sum of the absolute values of the debits
impliedBalance ==
  account.initialBalance + SumAmounts(storedCredits) - SumAbsAmounts(storedDebits)

\* the transactions an import batch stored
storedBy(id) == { t \in transactions : t.importBatchId = id }

\* the operation of p has returned to its caller, without an exception
Returned(p) == op[p].pc = "done" /\ op[p].thrownAt = None

\* the operation of p is an import that has called importBatch
RanImportBatch(p) == op[p].kind \in {"csv", "tink"} /\ op[p].batchId # 0

\* the steps after the row loop of importBatch, and those after markCompleted
AfterLoop == {"import_complete", "recalc_read", "recalc_write", "adjust", "done"}

AfterMarkCompleted == AfterLoop \ {"import_complete"}

\* C1: when create, delete, importBatch, updateInitialBalance, updateSettings or
\* resetAccount has completed without an exception, no operation overlapping another,
\* the stored balance is initialBalance + sum of credits - sum of |debits|.
C1_BalanceInvariant ==
  \A p \in Procs :
    ( /\ Returned(p)
      /\ \/ op[p].kind \in {"create", "delete", "updateInitialBalance", "updateSettings",
                            "resetAccount"}
         \/ RanImportBatch(p) )
    => account.balance = impliedBalance

\* a manual debit was created beside an imported credit: the balance moved off initialBalance
C1_Witness ==
  \E p \in Procs :
    /\ Returned(p)
    /\ op[p].kind = "create"
    /\ storedCredits # {}
    /\ storedDebits # {}
    /\ account.balance # account.initialBalance

\* C2: when processTinkCallback returns, the bank reported a balance B and the
\* back-solve did not raise, initialBalance = B - credits + |debits| over all stored
\* transactions, balance = B, and calculateForAccount gives B.
C2_BackSolve ==
  \A p \in Procs :
    ( /\ Returned(p)
      /\ op[p].kind = "tink"
      /\ op[p].tinkBalance # <<>>
      /\ ~op[p].adjustFailed )
    => LET B == op[p].tinkBalance[1] IN
       /\ account.initialBalance = B - SumAmounts(storedCredits) + SumAbsAmounts(storedDebits)
       /\ account.balance = B
       /\ calculateForAccount(account, transactions) = B

\* the callback imported a transaction into an account that held a manual one, and the
\* back-solve moved initialBalance off B
C2_Witness ==
  \E p \in Procs :
    /\ Returned(p)
    /\ op[p].kind = "tink"
    /\ op[p].tinkBalance # <<>>
    /\ ~op[p].adjustFailed
    /\ op[p].imported >= 1
    /\ storedBy(0) # {}
    /\ account.initialBalance # op[p].tinkBalance[1]

\* the bank feed of the model has one date and one description: two rows are the same
\* external transaction when amount and type agree
SameExternal(r1, r2) == r1.amount = r2.amount /\ r1.type = r2.type

\* two successive Tink imports of one and the same transaction, not stored before the
\* first, no row of which raised
Resynced(p) ==
  /\ Returned(p)
  /\ op[p].kind = "tink"
  /\ Len(op[p].rows) = 1
  /\ Len(op[p].errors) = 0
  /\ last.kind = "tink"
  /\ last.nerrors = 0
  /\ last.fresh
  /\ SameExternal(last.rows[1], op[p].rows[1])

\* C3: the same external transaction imported by two successive importFromTink calls
\* gives imported = 1 and skipped = 1 over the two calls, and one stored transaction.
C3_IdempotentResync ==
  \A p \in Procs :
    Resynced(p) =>
      /\ last.imported + op[p].imported = 1
      /\ last.skipped + op[p].skipped = 1
      /\ Cardinality(storedBy(last.batchId) \cup storedBy(op[p].batchId)) = 1
      /\ Cardinality(findByHash(transactions, op[p].rows[1].hash)) = 1

\* the second of the two imports has skipped the transaction
C3_Witness == \E p \in Procs : Resynced(p) /\ op[p].skipped = 1

\* C4: no two stored transactions have the same hash.
C4_UniqueHash ==
  \A t1, t2 \in transactions : t1.hash = t2.hash => t1 = t2

\* a manual create returned beside a stored imported transaction
C4_Witness ==
  /\ \E t1, t2 \in transactions : t1.importBatchId = 0 /\ t2.importBatchId # 0
  /\ \E p \in Procs : Returned(p) /\ op[p].kind = "create"

\* C5: in importBatch every transaction the loop has passed is counted once, as
\* imported, as skipped or as an entry of errors; imported + skipped <= the number of
\* transactions passed; the batch is written the counters that are returned.
C5_RowCount ==
  \A p \in Procs :
    LET o == op[p] IN
    (RanImportBatch(p) /\ o.thrownAt = None) =>
      /\ o.imported + o.skipped + Len(o.errors) =
           (IF o.pc \in RowSteps THEN o.idx - 1 ELSE Len(o.rows))
      /\ o.imported + o.skipped <= Len(o.rows)
      /\ \A i, j \in 1..Len(o.errors) : i # j => o.errors[i] # o.errors[j]
      /\ Cardinality(storedBy(o.batchId)) = o.imported
      /\ o.pc \in AfterMarkCompleted =>
           \E b \in batches :
             b.id = o.batchId /\ b.rowsImported = o.imported /\ b.rowsSkipped = o.skipped

\* an import of two transactions returned: one was imported, the other skipped
C5_Witness ==
  \E p \in Procs :
    /\ Returned(p)
    /\ RanImportBatch(p)
    /\ Len(op[p].rows) = 2
    /\ op[p].imported = 1
    /\ op[p].skipped = 1

\* C6: a batch is created in status processing, and its status changes only from
\* processing to completed or from processing to failed.
C6_StatusLifecycle ==
  [][ /\ \A c \in batches' :
           (\A b \in batches : b.id # c.id) => c.status = "processing"
      /\ \A b \in batches : \A c \in batches' :
           (c.id = b.id /\ c.status # b.status) =>
             (b.status = "processing" /\ c.status \in {"completed", "failed"}) ]_vars

\* C7: once the import that created a batch has returned or thrown, the batch is
\* completed when the import returned and failed when it threw.
C7_NoBatchLeftProcessing ==
  \A p \in Procs :
    (op[p].pc = "done" /\ RanImportBatch(p)) =>
      \E b \in batches :
        /\ b.id = op[p].batchId
        /\ b.status = IF op[p].thrownAt = None THEN "completed" ELSE "failed"

\* C8: a lookup or an insert that raises for one transaction adds one entry to errors
\* and the loop goes on: the exception does not leave importBatch, the loop is past
\* every failed row, and when the import returns every other row was imported or
\* skipped, the batch is completed and the balance recalculated.
C8_RowFailureContinues ==
  \A p \in Procs :
    LET o == op[p] IN
    (o.kind \in {"csv", "tink"}) =>
      /\ o.thrownAt \notin RowSteps
      /\ (RanImportBatch(p) /\ o.thrownAt = None) =>
           /\ \A i \in 1..Len(o.errors) : o.errors[i] < o.idx
           /\ o.pc = "done" =>
                /\ o.idx = Len(o.rows) + 1
                /\ o.imported + o.skipped = Len(o.rows) - Len(o.errors)
                /\ \E b \in batches : b.id = o.batchId /\ b.status = "completed"
                /\ o.recalculated
                /\ account.balance = calculateForAccount(account, transactions)

\* the first of two transactions raised and the second was imported
C8_Witness ==
  \E p \in Procs :
    /\ Returned(p)
    /\ RanImportBatch(p)
    /\ op[p].errors = <<1>>
    /\ op[p].imported = 1

\* C9 as stated: every import that returns a result has recalculated the balance.
C9_AlwaysRecalculated ==
  \A p \in Procs :
    (Returned(p) /\ op[p].kind \in {"csv", "tink"}) => op[p].recalculated

\* C9: every import that returns a result has recalculated the balance after its last
\* row and before returning, also when it imported nothing, unless the CSV parser found
\* no transaction and at least one error: importFromCsv then returns without a batch.
C9_RecalculatedUnlessNothingParsed ==
  \A p \in Procs :
    LET o == op[p] IN
    (o.kind \in {"csv", "tink"}) =>
      /\ o.recalculated => (o.pc \in {"adjust", "done"} /\ o.idx = Len(o.rows) + 1)
      /\ Returned(p) =>
           IF NothingParsed(o.rows, o.parseErrors)
           THEN o.batchId = 0 /\ ~o.recalculated
           ELSE /\ o.batchId # 0
                /\ o.recalculated
                /\ account.balance = calculateForAccount(account, transactions)

\* an import that was passed a transaction and imported none has recalculated
C9_Witness ==
  \E p \in Procs :
    /\ Returned(p)
    /\ op[p].kind = "csv"
    /\ op[p].rows # <<>>
    /\ op[p].imported = 0
    /\ op[p].recalculated

\* C10: when the back-solve of processTinkCallback raises, the callback returns without
\* an exception, the transactions it imported are stored, and the account has the
\* balance its recalculation wrote and the initialBalance that goes with it.
C10_BackSolveFailureSwallowed ==
  \A p \in Procs :
    LET o == op[p] IN
    /\ o.thrownAt # "adjust"
    /\ o.adjustFailed =>
         /\ Returned(p)
         /\ o.kind = "tink"
         /\ Cardinality(storedBy(o.batchId)) = o.imported
         /\ account.balance = o.newBalance
         /\ calculateForAccount(account, transactions) = o.newBalance

\* the back-solve raised after an import that stored a transaction, and the balance is
\* not the one the bank reported
C10_Witness ==
  \E p \in Procs :
    /\ op[p].adjustFailed
    /\ op[p].imported >= 1
    /\ account.balance # op[p].tinkBalance[1]

\* C11: every stored transaction has amount < 0 exactly when it is a debit and
\* amount > 0 exactly when it is a credit; none has amount 0.
C11_SignMatchesType ==
  \A t \in transactions :
    /\ (t.amount < 0) <=> (t.type = "debit")
    /\ (t.amount > 0) <=> (t.type = "credit")

\* the hash create computed for the manual entry of p is stored already
ManualDuplicate(p) == ~HashIsFree(transactions, op[p].rows[1].hash)

\* C12: when the hash of a manual entry is stored already, create raises
\* DuplicateTransactionError (unless the lookup itself fails), stores nothing and
\* leaves the account as it is; when it is not, create stores exactly one transaction,
\* the entry with that hash.
C12_ManualDuplicate ==
  /\ [](\A p \in Procs :
         (op[p].kind = "create") =>
           /\ op[p].error = "DuplicateTransactionError" =>
                (op[p].pc = "done" /\ op[p].thrownAt = "create_find" /\ ManualDuplicate(p))
           /\ op[p].pc = "create_insert" => ~ManualDuplicate(p)
           /\ Returned(p) =>
                Cardinality(findByHash(storedBy(0), op[p].rows[1].hash)) = 1)
  /\ [][\A p \in Procs :
         /\ (op[p].kind = "create" /\ op[p].pc = "create_find") =>
              /\ transactions' = transactions
              /\ account' = account
              /\ (ManualDuplicate(p) /\ op'[p] # op[p]) =>
                   (op'[p].pc = "done" /\ op'[p].thrownAt = "create_find")
              /\ (~ManualDuplicate(p) /\ op'[p].pc = "done") =>
                   op'[p].error # "DuplicateTransactionError"
         /\ (op[p].kind = "create" /\ op[p].pc = "create_insert"
                /\ op'[p].pc = "recalc_read") =>
              /\ Cardinality(transactions') = Cardinality(transactions) + 1
              /\ \E t \in transactions' :
                   /\ transactions' = transactions \cup {t}
                   /\ t.hash = op[p].rows[1].hash
                   /\ t.amount = op[p].rows[1].amount ]_vars

\* create has raised DuplicateTransactionError beside a stored transaction
C12_Witness ==
  \E p \in Procs :
    /\ op[p].kind = "create"
    /\ op[p].error = "DuplicateTransactionError"
    /\ transactions # {}

\* the place of a fetch among the three
FetchIndex(pc) ==
  CASE pc = "tink_token" -> 1
    [] pc = "tink_accounts" -> 2
    [] OTHER -> 3

\* the bank API has answered a fetch of p with a status that is not 2xx
Refused(p) == op[p].kind = "tink" /\ op[p].status # 0 /\ ~IsOk(op[p].status)

\* C13: when the token exchange, the accounts fetch or the transactions fetch of
\* processTinkCallback is answered with a status that is not 2xx, the call ends there
\* with an error carrying that status and the body, after one request per fetch made,
\* and up to the end of the fetches no batch, no transaction and no account field has
\* changed.
C13_ApiFailureIsFatal ==
  /\ [](\A p \in Procs :
         /\ Refused(p) =>
              /\ op[p].pc = "done"
              /\ op[p].thrownAt \in FetchSteps
              /\ op[p].error = "Error"
              /\ op[p].body \in HttpBodies
              /\ op[p].batchId = 0
              /\ op[p].requests = FetchIndex(op[p].thrownAt)
         /\ (op[p].kind = "tink" /\ op[p].pc \in FetchSteps) =>
              op[p].requests = FetchIndex(op[p].pc) - 1)
  /\ [][\A p \in Procs :
         (op[p].pc \in FetchSteps \/ (op[p].pc = "idle" /\ op'[p].kind = "tink")) =>
           /\ transactions' = transactions
           /\ batches' = batches
           /\ account' = account
           /\ nextBatchId' = nextBatchId ]_vars

\* the transactions fetch was refused for an account that holds a transaction
C13_Witness ==
  \E p \in Procs :
    /\ Refused(p)
    /\ op[p].thrownAt = "tink_transactions"
    /\ op[p].status = 500
    /\ transactions # {}

\* both callers have run an import to its end and neither has returned yet
BothImported == \A p \in Concurrent : Returned(p) /\ RanImportBatch(p)

\* C14: once two concurrent imports have both completed, the stored balance is
\* initialBalance + sum of credits - sum of |debits| over all stored transactions.
C14_NoLostRecalculation == BothImported => account.balance = impliedBalance


(***************************************************************************)
(* C15.  The same CSV content imported twice.                              *)
(***************************************************************************)
\* how many rows of the list carry the amount and type of r
occurrences(rows, r) == Cardinality({ j \in 1..Len(rows) : SameExternal(rows[j], r) })

\* the import of p, the second one, has returned without a row error, and its rows are
\* those the first import stored, all of them
Reimported(p) ==
  /\ Returned(p)
  /\ op[p].kind = "csv"
  /\ op[p].batchId = 2
  /\ Len(op[p].rows) >= 1
  /\ Len(op[p].errors) = 0
  /\ Cardinality(storedBy(1)) = Len(op[p].rows)
  /\ \A i \in 1..Len(op[p].rows) :
       Cardinality({ t \in storedBy(1) : SameExternal(t, op[p].rows[i]) })
         = occurrences(op[p].rows, op[p].rows[i])

JsNumber(n) == [t |-> "number", v |-> n]
JsString(n) == [t |-> "numeric string", v |-> n]
JsNaN       == [t |-> "NaN", v |-> 0]
JsNull      == [t |-> "null", v |-> 0]
JsText      == [t |-> "text", v |-> 0]

\* a JavaScript value that arithmetic takes for a finite number
IsNumeric(x) == x.t \in {"number", "numeric string"}

RawInitialBalances == {JsNumber(10), JsString(10), JsNaN, JsNull, JsText}
RawCreditTotals == {JsNumber(5), JsString(5), JsNaN, JsNull, JsText}
RawDebitTotals == {JsNumber(-3), JsString(-3), JsNaN, JsNull, JsText}

\* parseFloat on a string
parseFloat(x) == IF x.t = "numeric string" THEN JsNumber(x.v) ELSE JsNaN

\* x ?? 0
OrZero(x) == IF x.t = "null" THEN JsNumber(0) ELSE x

\* TransactionRepository.sumByType on the total the query returned
sumByTypeOf(total) ==
  IF total.t \in {"numeric string", "text"} THEN parseFloat(total) ELSE OrZero(total)

\* the Money constructor: Math.round(amount * 100) / 100, amount coerced to a number
Money(x) == IF IsNumeric(x) THEN JsNumber(x.v) ELSE IF x.t = "null" THEN JsNumber(0) ELSE JsNaN

\* Math.abs
MathAbs(x) == IF x.t = "number" THEN JsNumber(Abs(x.v)) ELSE x

\* Money.add and Money.subtract on the amounts
JsAdd(a, b) == IF a.t = "number" /\ b.t = "number" THEN JsNumber(a.v + b.v) ELSE JsNaN
JsSubtract(a, b) == IF a.t = "number" /\ b.t = "number" THEN JsNumber(a.v - b.v) ELSE JsNaN

\* BalanceCalculator.calculateForAccount on the raw values
calculateFromRaw(initialBalance, creditTotal, debitTotal) ==
  JsSubtract(JsAdd(Money(OrZero(initialBalance)), Money(sumByTypeOf(creditTotal))),
             Money(MathAbs(sumByTypeOf(debitTotal))))

CalcOp(i, c, d) ==
  [pc |-> "calculate", kind |-> "calculate", initialBalance |-> i, creditTotal |-> c,
   debitTotal |-> d, result |-> JsNull]

InitCalculate ==
  /\ started = 0
  /\ transactions = {}
  /\ batches = {}
  /\ account = [initialBalance |-> 0, balance |-> 0, bank |-> None]
  /\ nextTxId = 1
  /\ nextBatchId = 1
  /\ \E i \in RawInitialBalances, c \in RawCreditTotals, d \in RawDebitTotals :
       op = [p \in Concurrent |-> IF p \in Procs THEN CalcOp(i, c, d) ELSE IdleOp]
  /\ last = NoLast

CalculateForAccount(p) ==
  /\ op[p].pc = "calculate"
  /\ op' = [op EXCEPT ![p] = [op[p] EXCEPT
        !.pc = "calculated",
        !.result = calculateFromRaw(op[p].initialBalance, op[p].creditTotal,
                                    op[p].debitTotal)]]
  /\ UNCHANGED <<started, db, last>>

NextCalculate == \E p \in Procs : CalculateForAccount(p)

SpecCalculate == InitCalculate /\ [][NextCalculate]_vars

\* the account's initialBalance when it is a number, 0 otherwise
validInitialBalance(x) == IF IsNumeric(x) THEN JsNumber(x.v) ELSE JsNumber(0)

\* C16: calculateForAccount never returns NaN, and with a sum or an initialBalance
\* that is no number it returns the account's initialBalance, 0 when that is invalid.
C16_NeverNaN ==
  \A p \in Procs :
    op[p].pc = "calculated" =>
      /\ op[p].result.t = "number"
      /\ (\E x \in {op[p].initialBalance, op[p].creditTotal, op[p].debitTotal} :
            x.t \in {"NaN", "text"})
         => op[p].result = validInitialBalance(op[p].initialBalance)
(***************************************************************************)
(* CsvParser.parseRows: the tokenizer.  A text is a sequence of            *)
(* characters, a field a sequence of characters, a row a sequence of       *)
(* fields.                                                                 *)
(***************************************************************************)
Quote == "\""
Semicolon == ";"
Newline == "\n"
Space == " "
Letter == "a"

Chars == {Quote, Semicolon, Newline, Space, Letter}

\* the characters String.prototype.trim removes
Whitespace == {Space, Newline}

RECURSIVE trimStart(_)
trimStart(f) ==
  IF f # <<>> /\ Head(f) \in Whitespace THEN trimStart(Tail(f)) ELSE f

RECURSIVE trimEnd(_)
trimEnd(f) ==
  IF f # <<>> /\ f[Len(f)] \in Whitespace THEN trimEnd(SubSeq(f, 1, Len(f) - 1)) ELSE f

trim(f) == trimEnd(trimStart(f))

\* currentRow.some((field) => field.length > 0)
someNonEmpty(row) == \E k \in 1..Len(row) : Len(row[k]) > 0

\* a push of the row whatever its fields
pushAnyRow(rows, row) == Append(rows, row)

\* if (currentRow.some(...)) rows.push(currentRow)
pushRow(rows, row) == IF someNonEmpty(row) THEN Append(rows, row) ELSE rows

\* the locals of parseRows before the loop; i counts from 1
StartOfText ==
  [rows |-> <<>>, currentRow |-> <<>>, currentField |-> <<>>, inQuotes |-> FALSE, i |-> 1]

\* content[i + 1], None past the end
nextCharOf(content, i) == IF i < Len(content) THEN content[i + 1] ELSE None

\* one turn of the loop outside quotes
consumeUnquoted(st, content) ==
  LET char == content[st.i] IN
  IF char = Quote THEN [st EXCEPT !.inQuotes = TRUE, !.i = st.i + 1]
  ELSE IF char = Semicolon
  THEN [st EXCEPT !.currentRow = Append(st.currentRow, trim(st.currentField)),
                  !.currentField = <<>>, !.i = st.i + 1]
  ELSE IF char = Newline
  THEN [st EXCEPT !.rows = pushRow(st.rows, Append(st.currentRow, trim(st.currentField))),
                  !.currentRow = <<>>, !.currentField = <<>>, !.i = st.i + 1]
  ELSE [st EXCEPT !.currentField = Append(st.currentField, char), !.i = st.i + 1]

\* a turn of the loop that gives an open quote no effect on ';' and newline
consumeAsUnquoted(st, content) == consumeUnquoted(st, content)

\* one turn of the loop inside quotes
consumeQuoted(st, content) ==
  LET char == content[st.i] IN
  IF char = Quote /\ nextCharOf(content, st.i) = Quote
  THEN [st EXCEPT !.currentField = Append(st.currentField, Quote), !.i = st.i + 2]
  ELSE IF char = Quote THEN [st EXCEPT !.inQuotes = FALSE, !.i = st.i + 1]
  ELSE [st EXCEPT !.currentField = Append(st.currentField, char), !.i = st.i + 1]

\* one turn of the loop
consume(st, content) ==
  IF st.inQuotes THEN consumeQuoted(st, content) ELSE consumeUnquoted(st, content)

\* an end of parseRows that returns the rows pushed so far
noFlush(st) == st.rows

\* an end of parseRows that leaves out a field whose quote is still open
flushClosed(st) ==
  IF ~st.inQuotes /\ (st.currentField # <<>> \/ Len(st.currentRow) > 0)
  THEN pushRow(st.rows, Append(st.currentRow, trim(st.currentField)))
  ELSE st.rows

\* the statements after the loop: the last line when no newline ends it
flushRows(st) ==
  IF st.currentField # <<>> \/ Len(st.currentRow) > 0
  THEN pushRow(st.rows, Append(st.currentRow, trim(st.currentField)))
  ELSE st.rows

RECURSIVE scan(_, _)
scan(st, content) ==
  IF st.i > Len(content) THEN st ELSE scan(consume(st, content), content)

\* CsvParser.parseRows
parseRows(content) == flushRows(scan(StartOfText, content))

(***************************************************************************)
(* SpecParseRows: parseRows run on every text of at most MaxLen            *)
(* characters, one step per turn of its loop and one for its end.          *)
(***************************************************************************)
Texts == SeqsUpTo(Chars, MaxLen)

ParseOp(content) ==
  [pc |-> "parse_rows", kind |-> "parseRows", content |-> content, st |-> StartOfText,
   result |-> <<>>]

InitParseRows ==
  /\ started = 0
  /\ transactions = {}
  /\ batches = {}
  /\ account = [initialBalance |-> 0, balance |-> 0, bank |-> None]
  /\ nextTxId = 1
  /\ nextBatchId = 1
  /\ \E content \in Texts :
       op = [p \in Concurrent |-> IF p \in Procs THEN ParseOp(content) ELSE IdleOp]
  /\ last = NoLast

\* a turn of the loop
ParseRowsChar(p) ==
  /\ op[p].pc = "parse_rows"
  /\ op[p].st.i <= Len(op[p].content)
  /\ op' = [op EXCEPT ![p] = [op[p] EXCEPT !.st = consume(op[p].st, op[p].content)]]
  /\ UNCHANGED <<started, db, last>>

\* the end of the loop, the last line, the return
ParseRowsEnd(p) ==
  /\ op[p].pc = "parse_rows"
  /\ op[p].st.i > Len(op[p].content)
  /\ op' = [op EXCEPT ![p] = [op[p] EXCEPT !.pc = "parsed", !.result = flushRows(op[p].st)]]
  /\ UNCHANGED <<started, db, last>>

NextParseRows == \E p \in Procs : ParseRowsChar(p) \/ ParseRowsEnd(p)

SpecParseRows == InitParseRows /\ [][NextParseRows]_vars

\* the tokenizer of p reads, in this step, the character c while a quoted field is open
ReadsQuoted(p, c) ==
  /\ op[p].pc = "parse_rows"
  /\ op[p].st.inQuotes
  /\ op[p].st.i <= Len(op[p].content)
  /\ op[p].content[op[p].st.i] = c

\* the number of rows and of fields closed so far
closedRows(o) == Len(o.st.rows)
closedFields(o) == Len(o.st.currentRow)

\* C17: a newline or a ';' read while a quoted field is open ends neither the row nor
\* the field, it is added to the field; a row is pushed only by a newline outside
\* quotes or by the end of parseRows.
C17_QuotedDelimiters ==
  [][\A p \in Procs :
       /\ \A c \in {Newline, Semicolon} :
            ReadsQuoted(p, c) =>
              /\ op'[p].st.rows = op[p].st.rows
              /\ op'[p].st.currentRow = op[p].st.currentRow
              /\ op'[p].st.currentField = Append(op[p].st.currentField, c)
              /\ op'[p].st.inQuotes
       /\ (op[p].pc = "parse_rows" /\ op'[p].pc = "parse_rows"
             /\ op'[p].st.rows # op[p].st.rows) =>
            /\ ~op[p].st.inQuotes
            /\ op[p].content[op[p].st.i] = Newline]_vars

\* a field in quotes over two lines has been returned as one field of one row, the
\* newline in it
C17_Witness ==
  \E p \in Procs :
    /\ op[p].pc = "parsed"
    /\ op[p].content = <<Quote, Letter, Newline, Letter, Quote>>
    /\ op[p].result = << << <<Letter, Newline, Letter>> >> >>
\* every row of the list has a field that is not empty
allRowsFilled(rows) == \A r \in 1..Len(rows) : someNonEmpty(rows[r])

\* C18: every row parseRows has pushed or returns has at least one non-empty field,
\* whether the line ended with a newline or was the last of the text.
C18_NoEmptyRow ==
  \A p \in Procs :
    op[p].kind = "parseRows" =>
      /\ allRowsFilled(op[p].st.rows)
      /\ allRowsFilled(op[p].result)

\* a text with a line of empty fields ended by a newline and a last line of empty
\* fields has been parsed to its one filled row
C18_Witness ==
  \E p \in Procs :
    /\ op[p].pc = "parsed"
    /\ op[p].content = <<Semicolon, Newline, Letter, Newline, Semicolon>>
    /\ op[p].result = << << <<Letter>> >> >>

\* the text of p does not end inside an open quoted field
EndsClosed(p) == op[p].pc = "parsed" /\ ~op[p].st.inQuotes

\* C19: for a text that does not end inside an open quoted field, parseRows returns
\* the same rows for the text and for the text followed by one newline.
C19_TrailingNewline ==
  \A p \in Procs :
    EndsClosed(p) =>
      /\ op[p].result = parseRows(op[p].content)
      /\ parseRows(Append(op[p].content, Newline)) = op[p].result

\* a text whose last line has no newline has been parsed, the last line returned
C19_Witness ==
  \E p \in Procs :
    /\ EndsClosed(p)
    /\ op[p].content = <<Letter, Newline, Letter, Semicolon, Letter>>
    /\ op[p].result = << << <<Letter>> >>, << <<Letter>>, <<Letter>> >> >>

\* the text of p ended while a quoted field was open
EndsOpen(p) == op[p].pc = "parsed" /\ op[p].st.inQuotes

\* the tokenizer of p reads a character while a quoted field is open
ReadsInsideQuotes(p) ==
  /\ op[p].pc = "parse_rows"
  /\ op[p].st.inQuotes
  /\ op[p].st.i <= Len(op[p].content)

\* C20: parseRows ends on every text; with a quote left open, every character read
\* after it goes into the one field, a pair of quotes as one quote, and the end of the
\* text flushes that field as the last field of the last row.
C20_UnmatchedQuote ==
  /\ [](\A p \in Procs :
          EndsOpen(p) =>
            /\ op[p].st.i > Len(op[p].content)
            /\ op[p].result =
                 pushRow(op[p].st.rows, Append(op[p].st.currentRow, trim(op[p].st.currentField)))
            /\ trim(op[p].st.currentField) # <<>> =>
                 LET lastRow == op[p].result[Len(op[p].result)]
                 IN  lastRow[Len(lastRow)] = trim(op[p].st.currentField))
  /\ [][\A p \in Procs :
          (ReadsInsideQuotes(p) /\ op'[p].st.inQuotes) =>
            /\ op'[p].st.rows = op[p].st.rows
            /\ op'[p].st.currentRow = op[p].st.currentRow
            /\ op'[p].st.currentField =
                 Append(op[p].st.currentField, op[p].content[op[p].st.i])]_vars

\* a text with a quote never closed, a ';' and a newline after it, has been parsed:
\* one row, its second field holding all that follows the quote
C20_Witness ==
  \E p \in Procs :
    /\ EndsOpen(p)
    /\ op[p].content = <<Letter, Semicolon, Quote, Semicolon, Newline>>
    /\ op[p].result = << << <<Letter>>, <<Semicolon>> >> >>
(***************************************************************************)
(* SpecParse: CsvParser.parse on the rows its tokenizer returns, one step  *)
(* per turn of its loop.  A row is given by the number of its fields, its  *)
(* date and label fields, and what parseAmount returns for its debit and   *)
(* credit fields.                                                          *)
(***************************************************************************)
ValidDate == "01/02/2024"
InvalidDate == "32/01/2024"

CsvRow(n, date, label, debit, credit) ==
  [n |-> n, date |-> date, label |-> label, debit |-> debit, credit |-> credit]

\* the first row of a file: the names of the columns
HeaderRow == CsvRow(4, "Date", "Libelle", 0, 0)

\* rows after the header: three fields only, no date, no label, a date that is none,
\* a debit, a credit, both, neither, a negative debit beside a credit
DataRows ==
  { CsvRow(3, ValidDate, "CARTE", 3, 0),
    CsvRow(4, "", "CARTE", 3, 0),
    CsvRow(4, ValidDate, "", 0, 5),
    CsvRow(4, InvalidDate, "CARTE", 3, 0),
    CsvRow(4, ValidDate, "CARTE", 3, 0),
    CsvRow(4, ValidDate, "CARTE", 0, 5),
    CsvRow(4, ValidDate, "CARTE", 3, 5),
    CsvRow(4, ValidDate, "CARTE", 0, 0),
    CsvRow(4, ValidDate, "CARTE", -3, 5) }

\* DateUtils.parseFromFrenchFormat: a DateTime, or null
parseFromFrenchFormat(dateStr) == IF dateStr = ValidDate THEN <<dateStr>> ELSE <<>>

\* a parseRow that reads the credit column first
parseRowCreditFirst(fields, rowIndex) ==
  IF fields.date = "" \/ fields.label = "" THEN [r |-> "null"]
  ELSE IF parseFromFrenchFormat(fields.date) = <<>> THEN [r |-> "throw"]
  ELSE IF fields.credit > 0
  THEN [r |-> "transaction", amount |-> fields.credit, type |-> "credit",
        hash |-> forImportedTransaction(fields.date, fields.label, fields.credit, rowIndex)]
  ELSE IF fields.debit > 0
  THEN [r |-> "transaction", amount |-> -fields.debit, type |-> "debit",
        hash |-> forImportedTransaction(fields.date, fields.label, -fields.debit, rowIndex)]
  ELSE [r |-> "null"]

\* CsvParser.parseRow: a transaction, null, or the exception of an invalid date
parseRow(fields, rowIndex) ==
  IF fields.date = "" \/ fields.label = "" THEN [r |-> "null"]
  ELSE IF parseFromFrenchFormat(fields.date) = <<>> THEN [r |-> "throw"]
  ELSE IF fields.debit > 0
  THEN [r |-> "transaction", amount |-> -fields.debit, type |-> "debit",
        hash |-> forImportedTransaction(fields.date, fields.label, -fields.debit, rowIndex)]
  ELSE IF fields.credit > 0
  THEN [r |-> "transaction", amount |-> fields.credit, type |-> "credit",
        hash |-> forImportedTransaction(fields.date, fields.label, fields.credit, rowIndex)]
  ELSE [r |-> "null"]

\* the locals of parse before its loop; i counts the rows from 1, the header is row 1
ParseCall(rows) ==
  [pc |-> "parse", kind |-> "parse", rows |-> rows, i |-> 2, transactions |-> <<>>,
   errors |-> <<>>, thrownAt |-> None]

\* a catch that lets the exception of the row leave parse
rowErrorRethrown(o) == [o EXCEPT !.pc = "done", !.thrownAt = "parse_row"]

\* the catch of the loop: errors.push(`Ligne ${i + 1}: ...`), then the next row
rowErrorCaught(o) == [o EXCEPT !.errors = Append(o.errors, o.i), !.i = o.i + 1]

\* one turn of the loop of parse
parseTurn(o) ==
  LET row == o.rows[o.i]
      out == parseRow(row, o.i - 1)
  IN  IF row.n < 4 THEN [o EXCEPT !.i = o.i + 1]
      ELSE IF out.r = "throw" THEN rowErrorCaught(o)
      ELSE IF out.r = "transaction"
      THEN [o EXCEPT !.i = o.i + 1,
                     !.transactions = Append(o.transactions,
                        [amount |-> out.amount, type |-> out.type, hash |-> out.hash])]
      ELSE [o EXCEPT !.i = o.i + 1]

ParsedFiles == {<<>>} \cup { <<HeaderRow>> \o data : data \in SeqsUpTo(DataRows, MaxRows) }

InitParse ==
  /\ started = 0
  /\ transactions = {}
  /\ batches = {}
  /\ account = [initialBalance |-> 0, balance |-> 0, bank |-> None]
  /\ nextTxId = 1
  /\ nextBatchId = 1
  /\ \E rows \in ParsedFiles :
       op = [p \in Concurrent |-> IF p \in Procs THEN ParseCall(rows) ELSE IdleOp]
  /\ last = NoLast

ParseRow(p) ==
  /\ op[p].pc = "parse"
  /\ op[p].i <= Len(op[p].rows)
  /\ op' = [op EXCEPT ![p] = parseTurn(op[p])]
  /\ UNCHANGED <<started, db, last>>

ParseReturn(p) ==
  /\ op[p].pc = "parse"
  /\ op[p].i > Len(op[p].rows)
  /\ op' = [op EXCEPT ![p] = [op[p] EXCEPT !.pc = "done"]]
  /\ UNCHANGED <<started, db, last>>

NextParse == \E p \in Procs : ParseRow(p) \/ ParseReturn(p)

SpecParse == InitParse /\ [][NextParse]_vars

\* what a row must give: a transaction, an error, or nothing
expected(row) ==
  IF row.n < 4 \/ row.date = "" \/ row.label = "" THEN "nothing"
  ELSE IF row.date # ValidDate THEN "error"
  ELSE IF row.debit > 0 \/ row.credit > 0 THEN "transaction"
  ELSE "nothing"

\* the rows after the header that must give a transaction, resp. an error
rowsGiving(rows, what) == { k \in 2..Len(rows) : expected(rows[k]) = what }

\* the row index digested into the hash of a parsed transaction
rowIndexOf(tx) == tx.hash[4]

\* C21: parse never throws; the header is discarded; every later row gives exactly one
\* of a transaction, an error entry or nothing, whatever the rows before it gave; the
\* transactions are in the order of their rows.
C21_ParseIsTotal ==
  /\ [](\A p \in Procs :
          op[p].kind = "parse" =>
            /\ op[p].thrownAt = None
            /\ \A a, b \in 1..Len(op[p].transactions) :
                 a < b => rowIndexOf(op[p].transactions[a]) < rowIndexOf(op[p].transactions[b])
            /\ op[p].pc = "done" =>
                 /\ { rowIndexOf(op[p].transactions[a]) + 1 : a \in 1..Len(op[p].transactions) }
                      = rowsGiving(op[p].rows, "transaction")
                 /\ { op[p].errors[a] : a \in 1..Len(op[p].errors) }
                      = rowsGiving(op[p].rows, "error"))
  /\ [][\A p \in Procs :
          (op[p].kind = "parse" /\ op[p].pc = "parse" /\ op'[p].pc = "parse") =>
            LET what == expected(op[p].rows[op[p].i])
                newTx == Len(op'[p].transactions) - Len(op[p].transactions)
                newErr == Len(op'[p].errors) - Len(op[p].errors)
            IN  /\ op'[p].i = op[p].i + 1
                /\ newTx = (IF what = "transaction" THEN 1 ELSE 0)
                /\ newErr = (IF what = "error" THEN 1 ELSE 0)]_vars

\* a file whose first data row has an invalid date and whose second is a credit has
\* been parsed: one error for line 2, one transaction from row index 2
C21_Witness ==
  \E p \in Procs :
    /\ op[p].kind = "parse"
    /\ op[p].pc = "done"
    /\ Len(op[p].rows) = 3
    /\ op[p].errors = <<2>>
    /\ Len(op[p].transactions) = 1
    /\ rowIndexOf(op[p].transactions[1]) = 2
\* the row a parsed transaction came from
rowOf(o, tx) == o.rows[rowIndexOf(tx) + 1]

\* the rows parseRow has been called on and returned from
readable(row) == row.n >= 4 /\ row.date = ValidDate /\ row.label # ""

\* C22: parseRow takes amount and type from the debit and credit columns alone: a
\* debit > 0 gives amount = -debit and type debit; otherwise a credit > 0 gives
\* amount = credit and type credit; otherwise neither a transaction nor an error.
C22_AmountFromColumns ==
  \A p \in Procs :
    op[p].kind = "parse" =>
      /\ \A a \in 1..Len(op[p].transactions) :
           LET tx == op[p].transactions[a]
               row == rowOf(op[p], tx)
           IN  IF row.debit > 0
               THEN tx.amount = -row.debit /\ tx.type = "debit"
               ELSE row.credit > 0 /\ tx.amount = row.credit /\ tx.type = "credit"
      /\ op[p].pc = "done" =>
           \A k \in 2..Len(op[p].rows) :
             LET row == op[p].rows[k]
                 given == { a \in 1..Len(op[p].transactions) :
                              rowIndexOf(op[p].transactions[a]) = k - 1 }
             IN  readable(row) =>
                   /\ Cardinality(given) = (IF row.debit > 0 \/ row.credit > 0 THEN 1 ELSE 0)
                   /\ \A e \in 1..Len(op[p].errors) : op[p].errors[e] # k

\* a row with a debit and a credit has given a debit, and a row with a negative debit
\* beside a credit has given the credit
C22_Witness ==
  \E p \in Procs :
    /\ op[p].kind = "parse"
    /\ op[p].pc = "done"
    /\ op[p].rows = <<HeaderRow, CsvRow(4, ValidDate, "CARTE", 3, 5),
                      CsvRow(4, ValidDate, "CARTE", -3, 5)>>
    /\ Len(op[p].transactions) = 2
    /\ op[p].transactions[1].amount = -3
    /\ op[p].transactions[2].amount = 5
(***************************************************************************)
(* SpecParseAmount: CsvParser.parseAmount on every field of at most MaxLen *)
(* characters.  A number is given by its sign and the digits before and    *)
(* after the decimal point; the digits of the model are not 0, so that two *)
(* numbers are equal exactly when these are.                               *)
(***************************************************************************)
Digits == {"1", "2"}
Comma == ","
Period == "."
Minus == "-"
Currency == "$"

AmountChars == Digits \cup {Comma, Period, Minus, Space, Currency}

Decimal(neg, int, frac) == [t |-> "number", neg |-> neg, int |-> int, frac |-> frac]
Zero == Decimal(FALSE, <<>>, <<>>)
NotANumber == [t |-> "NaN", neg |-> FALSE, int |-> <<>>, frac |-> <<>>]

IsDigit(c) == c \in Digits

\* value.replace(/[^\d,.-]/g, "")
stripNonNumeric(value) == SelectSeq(value, LAMBDA c : c \in Digits \cup {Comma, Period, Minus})

\* a replace that leaves the comma where it is
keepComma(text) == text

\* text.replace(",", "."): the first comma only
RECURSIVE replaceFirstComma(_)
replaceFirstComma(text) ==
  IF text = <<>> THEN <<>>
  ELSE IF Head(text) = Comma THEN <<Period>> \o Tail(text)
  ELSE <<Head(text)>> \o replaceFirstComma(Tail(text))

\* the longest prefix of digits
RECURSIVE leadingDigits(_)
leadingDigits(text) ==
  IF text # <<>> /\ IsDigit(Head(text)) THEN <<Head(text)>> \o leadingDigits(Tail(text))
  ELSE <<>>

dropFirst(text, n) == SubSeq(text, n + 1, Len(text))

\* Number.parseFloat on a text of digits, commas, periods and minus signs: an optional
\* sign, digits, an optional period and digits, whatever follows ignored; NaN when no
\* digit was read
numberParseFloat(text) ==
  LET neg == text # <<>> /\ Head(text) = Minus
      unsigned == IF neg THEN Tail(text) ELSE text
      int == leadingDigits(unsigned)
      rest == dropFirst(unsigned, Len(int))
      frac == IF rest # <<>> /\ Head(rest) = Period THEN leadingDigits(Tail(rest)) ELSE <<>>
  IN  IF int = <<>> /\ frac = <<>> THEN NotANumber ELSE Decimal(neg, int, frac)

\* Number.isNaN(amount) ? 0 : amount
orZeroIfNaN(amount) == IF amount.t = "NaN" THEN Zero ELSE amount

\* CsvParser.parseAmount
parseAmount(value) ==
  IF value = <<>> \/ trim(value) = <<>> THEN Zero
  ELSE orZeroIfNaN(numberParseFloat(replaceFirstComma(stripNonNumeric(value))))

AmountFields == SeqsUpTo(AmountChars, MaxLen)

AmountCall(value) ==
  [pc |-> "parse_amount", kind |-> "parseAmount", value |-> value, result |-> Zero]

InitParseAmount ==
  /\ started = 0
  /\ transactions = {}
  /\ batches = {}
  /\ account = [initialBalance |-> 0, balance |-> 0, bank |-> None]
  /\ nextTxId = 1
  /\ nextBatchId = 1
  /\ \E value \in AmountFields :
       op = [p \in Concurrent |-> IF p \in Procs THEN AmountCall(value) ELSE IdleOp]
  /\ last = NoLast

ParseAmount(p) ==
  /\ op[p].pc = "parse_amount"
  /\ op' = [op EXCEPT ![p] = [op[p] EXCEPT !.pc = "done",
                                          !.result = parseAmount(op[p].value)]]
  /\ UNCHANGED <<started, db, last>>

NextParseAmount == \E p \in Procs : ParseAmount(p)

SpecParseAmount == InitParseAmount /\ [][NextParseAmount]_vars

\* the field without the spaces and currency symbols at its two ends
RECURSIVE core(_)
core(value) ==
  IF value # <<>> /\ Head(value) \in {Space, Currency} THEN core(Tail(value))
  ELSE IF value # <<>> /\ value[Len(value)] \in {Space, Currency}
  THEN core(SubSeq(value, 1, Len(value) - 1))
  ELSE value

\* the positions of the commas of a text
commas(text) == { k \in 1..Len(text) : text[k] = Comma }

\* the part of the text before its first comma, and the part after it
integerPart(text) ==
  IF commas(text) = {} THEN text
  ELSE SubSeq(text, 1, (CHOOSE k \in commas(text) : \A m \in commas(text) : k <= m) - 1)
decimalPart(text) ==
  IF commas(text) = {} THEN <<>>
  ELSE dropFirst(text, CHOOSE k \in commas(text) : \A m \in commas(text) : k <= m)

\* an amount in French format: between spaces and currency symbols, groups of digits
\* separated by single spaces, then at most one comma followed by digits
FrenchFormatted(value) ==
  LET text == core(value)
      int == integerPart(text)
      dec == decimalPart(text)
  IN  /\ Cardinality(commas(text)) <= 1
      /\ int # <<>>
      /\ IsDigit(int[1]) /\ IsDigit(int[Len(int)])
      /\ \A k \in 1..Len(int) : int[k] \in Digits \cup {Space}
      /\ \A k \in 1..(Len(int) - 1) : ~(int[k] = Space /\ int[k + 1] = Space)
      /\ commas(text) # {} => dec # <<>>
      /\ \A k \in 1..Len(dec) : IsDigit(dec[k])

\* the value of an amount in French format
frenchValue(value) ==
  Decimal(FALSE, SelectSeq(integerPart(core(value)), IsDigit), decimalPart(core(value)))

\* C23: parseAmount returns a number for every field; 0 for a blank field and for one
\* without any digit; for an amount in French format, the value read with thousands
\* separators and currency symbols stripped and the comma as decimal separator.
C23_ParseAmountTotal ==
  \A p \in Procs :
    (op[p].kind = "parseAmount" /\ op[p].pc = "done") =>
      /\ op[p].result.t = "number"
      /\ (\A k \in 1..Len(op[p].value) : ~IsDigit(op[p].value[k])) => op[p].result = Zero
      /\ FrenchFormatted(op[p].value) => op[p].result = frenchValue(op[p].value)

\* the field "1 2,1" has been parsed to 12.1
C23_Witness ==
  \E p \in Procs :
    /\ op[p].kind = "parseAmount"
    /\ op[p].pc = "done"
    /\ op[p].value = <<"1", Space, "2", Comma, "1">>
    /\ op[p].result = Decimal(FALSE, <<"1", "2">>, <<"1">>)
(***************************************************************************)
(* SpecMonthlyStats: BalanceCalculator.calculateMonthlyStats for one month *)
(* on every set of dated transactions.  Days are counted through the year  *)
(* of the month asked for: the month runs from FirstDay to LastDay.        *)
(***************************************************************************)
FirstDay == 1
LastDay == 31

\* the eve of the month, its first and last day, the day after
Days == {FirstDay - 1, FirstDay, LastDay, LastDay + 1}

DatedTransactions ==
  [day : Days, type : {"credit"}, amount : {5}] \cup [day : Days, type : {"debit"}, amount : {-3}]

\* TransactionRepository.sumByTypeAndMonth: date >= startDate, date <= endDate
sumByTypeAndMonth(txs, type) ==
  SumAmounts({ t \in txs : t.type = type /\ t.day >= FirstDay /\ t.day <= LastDay })

\* a quotient of two numbers, kept as a fraction; not finite when the divisor is 0
Fraction(num, den) == [finite |-> den # 0, num |-> num, den |-> den]

\* (savings / income) * 100 without the test on income
rateUnguarded(savings, income) == Fraction(savings * 100, income)

\* income.amount > 0 ? (savings.amount / income.amount) * 100 : 0
rateOf(savings, income) ==
  IF income > 0 THEN Fraction(savings * 100, income) ELSE Fraction(0, 1)

\* Math.max(0, savingsRate), the divisor positive when the rate is finite
maxZero(rate) == IF rate.finite /\ rate.num < 0 THEN Fraction(0, 1) ELSE rate

calculateMonthlyStats(txs) ==
  LET income == sumByTypeAndMonth(txs, "credit")
      expenses == Abs(sumByTypeAndMonth(txs, "debit"))
      savings == income - expenses
  IN  [income |-> income, expenses |-> expenses, savings |-> savings,
       savingsRate |-> maxZero(rateOf(savings, income))]

StatsCall(txs) ==
  [pc |-> "monthly_stats", kind |-> "monthlyStats", txs |-> txs,
   result |-> [income |-> 0, expenses |-> 0, savings |-> 0, savingsRate |-> Fraction(0, 1)]]

InitMonthlyStats ==
  /\ started = 0
  /\ transactions = {}
  /\ batches = {}
  /\ account = [initialBalance |-> 0, balance |-> 0, bank |-> None]
  /\ nextTxId = 1
  /\ nextBatchId = 1
  /\ \E txs \in SUBSET DatedTransactions :
       op = [p \in Concurrent |-> IF p \in Procs THEN StatsCall(txs) ELSE IdleOp]
  /\ last = NoLast

CalculateMonthlyStats(p) ==
  /\ op[p].pc = "monthly_stats"
  /\ op' = [op EXCEPT ![p] = [op[p] EXCEPT !.pc = "done",
                                          !.result = calculateMonthlyStats(op[p].txs)]]
  /\ UNCHANGED <<started, db, last>>

NextMonthlyStats == \E p \in Procs : CalculateMonthlyStats(p)

SpecMonthlyStats == InitMonthlyStats /\ [][NextMonthlyStats]_vars

\* the credits and the debits of the month, first to last day inclusive
monthCredits(txs) == { t \in txs : t.type = "credit" /\ t.day \in FirstDay..LastDay }
monthDebits(txs) == { t \in txs : t.type = "debit" /\ t.day \in FirstDay..LastDay }

\* C24: calculateMonthlyStats returns income and expenses as the sums of the month's
\* credits and of the absolute value of its debits, savingsRate = max(0, (income -
\* expenses) / income * 100) when income > 0 and 0 when income is 0; the rate is a
\* finite number, never negative.
C24_SavingsRate ==
  \A p \in Procs :
    (op[p].kind = "monthlyStats" /\ op[p].pc = "done") =>
      LET r == op[p].result
          income == SumAmounts(monthCredits(op[p].txs))
          expenses == SumAbsAmounts(monthDebits(op[p].txs))
      IN  /\ r.income = income
          /\ r.expenses = expenses
          /\ r.savingsRate.finite
          /\ r.savingsRate.den > 0
          /\ r.savingsRate.num >= 0
          /\ income = 0 => r.savingsRate.num = 0
          /\ income > 0 =>
               IF income - expenses >= 0
               THEN r.savingsRate.num * income = (income - expenses) * 100 * r.savingsRate.den
               ELSE r.savingsRate.num = 0

\* a month with a credit and no debit: rate 100; the transactions of the eve and of
\* the day after the month left out
C24_Witness ==
  \E p \in Procs :
    /\ op[p].kind = "monthlyStats"
    /\ op[p].pc = "done"
    /\ op[p].txs = { [day |-> FirstDay, type |-> "credit", amount |-> 5],
                     [day |-> FirstDay - 1, type |-> "debit", amount |-> -3],
                     [day |-> LastDay + 1, type |-> "credit", amount |-> 5] }
    /\ op[p].result.income = 5
    /\ op[p].result.savingsRate = Fraction(500, 5)
(***************************************************************************)
(* C25.  The bank disconnect: resetAccount called by the controller.       *)
(***************************************************************************)
\* resetAccount has returned to BankConnectionsController.disconnect
Disconnected(p) == Returned(p) /\ op[p].kind = "resetAccount"

\* C25: after a bank disconnect all transactions of the account are deleted and the
\* account balance is zero.
C25_DisconnectZeroesBalance ==
  \A p \in Procs :
    Disconnected(p) => transactions = {} /\ account.balance = 0
(***************************************************************************)
(* SpecConcurrentTink: TransactionService.importFromTink called by two     *)
(* requests served at the same time, their steps interleaved.              *)
(***************************************************************************)
ImportFromTinkConcurrently(p, raws) ==
  /\ BeginConcurrent(p)
  /\ nextBatchId <= MaxBatchId
  /\ Fits(importFromTinkRows(raws))
  /\ op' = [op EXCEPT ![p] = [IdleOp EXCEPT !.pc = "batch_create", !.kind = "tink",
        !.rows = importFromTinkRows(raws)]]
  /\ UNCHANGED <<db, last>>

StartConcurrentTink(p) == \E raws \in TinkInputs : ImportFromTinkConcurrently(p, raws)

NextConcurrentTink == \E p \in Concurrent : StartConcurrentTink(p) \/ StepConcurrent(p)

SpecConcurrentTink == Init /\ [][NextConcurrentTink]_vars

\* the two callers have each run an importFromTink of one and the same transaction to
\* its end, and neither has returned yet
BothSynced ==
  /\ \A p \in Concurrent : Returned(p) /\ op[p].kind = "tink" /\ Len(op[p].rows) = 1
  /\ op["p1"].rows[1].hash = op["p2"].rows[1].hash

\* C26: two concurrent importFromTink calls carrying the same external transaction
\* store exactly one copy of it and report together imported = 1, skipped = 1 and no
\* error.
C26_ConcurrentDedup ==
  BothSynced =>
    /\ Cardinality({ t \in transactions : t.hash = op["p1"].rows[1].hash }) = 1
    /\ op["p1"].imported + op["p2"].imported = 1
    /\ op["p1"].skipped + op["p2"].skipped = 1
    /\ op["p1"].errors = <<>> /\ op["p2"].errors = <<>>
(***************************************************************************)
(* SpecTinkIds: TransactionService.importFromTink called again and again   *)
(* on feeds in which the bank gives one transaction several ids.           *)
(***************************************************************************)
ExternalIds == {"e1", "e2"}

TinkRawAnyId ==
  [id : ExternalIds, date : TinkDates, amount : TinkNonZero, description : TinkDescriptions]

ImportFromTink(p, raws) ==
  /\ Begin(p)
  /\ nextBatchId <= MaxBatchId
  /\ Fits(importFromTinkRows(raws))
  /\ op' = [op EXCEPT ![p] = [IdleOp EXCEPT !.pc = "batch_create", !.kind = "tink",
        !.rows = importFromTinkRows(raws)]]
  /\ UNCHANGED <<db, last>>

StartTinkIds(p) == \E raws \in SeqsUpTo(TinkRawAnyId, MaxRows) : ImportFromTink(p, raws)

StepTinkIds(p) ==
  \/ BatchCreate(p) \/ ImportFind(p) \/ ImportInsert(p) \/ ImportComplete(p)
  \/ RecalcRead(p) \/ RecalcWrite(p)
  \/ Raise(p)
  \/ Return(p)

NextTinkIds == \E p \in Procs : StartTinkIds(p) \/ StepTinkIds(p)

SpecTinkIds == Init /\ [][NextTinkIds]_vars

\* an import of two transactions that differ by their externalId alone, neither stored
\* when the batch was created, has returned without a row error
TwoIdsOneTransaction(p) ==
  /\ Returned(p)
  /\ op[p].kind = "tink"
  /\ Len(op[p].rows) = 2
  /\ SameExternal(op[p].rows[1], op[p].rows[2])
  /\ op[p].rows[1].externalId # op[p].rows[2].externalId
  /\ op[p].errors = <<>>
  /\ op[p].fresh

StartAdjust(p) ==
  \/ \E ty \in {"debit", "credit"}, a \in Amounts, h \in ManualHashes : Create(p, ty, a, h)
  \/ \E b \in Balances : AdjustBalance(p, b)
  \/ \E raws \in TinkInputs, b \in SeqsUpTo(Balances, 1) : ProcessTinkCallback(p, raws, b)

StepAdjust(p) ==
  \/ CreateFind(p) \/ CreateInsert(p)
  \/ AdjustSums(p) \/ InitialWrite(p)
  \/ BatchCreate(p) \/ ImportFind(p) \/ ImportInsert(p) \/ ImportComplete(p)
  \/ RecalcRead(p) \/ RecalcWrite(p)
  \/ \E status \in HttpStatuses, body \in HttpBodies : TinkFetch(p, status, body)
  \/ UpdateBankInfo(p) \/ Adjust(p)
  \/ Raise(p)
  \/ Return(p)

NextAdjust == \E p \in Procs : StartAdjust(p) \/ StepAdjust(p)

SpecAdjust == Init /\ [][NextAdjust]_vars

\* adjustBalance has answered with success
AdjustedByController(p) == Returned(p) /\ op[p].kind = "adjustBalance"

\* processTinkCallback has returned and its back-solve has written the account
AdjustedByImport(p) ==
  /\ Returned(p)
  /\ op[p].kind = "tink"
  /\ op[p].tinkBalance # <<>>
  /\ ~op[p].adjustFailed

\* C28: for the same transactions and the same bank balance B, adjustBalance and
\* adjustInitialBalanceFromTink leave the same account: initialBalance = B - credits
\* + |debits| and balance = B.
C28_SameAdjustment ==
  \A p \in Procs :
    (AdjustedByController(p) \/ AdjustedByImport(p)) =>
      /\ account.initialBalance = op[p].tinkBalance[1] - SumAmounts(storedCredits) + SumAbsAmounts(storedDebits)
      /\ account.balance = op[p].tinkBalance[1]
      /\ account = adjustedAccount(account, transactions, op[p].tinkBalance[1])

\* adjustBalance has answered on an account with a stored debit
C28_Witness ==
  \E p \in Procs :
    /\ AdjustedByController(p)
    /\ storedDebits # {}
    /\ account.initialBalance # op[p].tinkBalance[1]
(***************************************************************************)
(* C29.  The balance the controller-level import writes.                   *)
(***************************************************************************)
\* ImportsController.store has answered with success
ControllerImported(p) ==
  /\ op[p].pc = "done"
  /\ op[p].kind = "controller"
  /\ \E b \in batches : b.id = op[p].batchId /\ b.status = "completed"

\* C29: after ImportsController.store completes, the account balance is initialBalance
\* + the stored credits - the absolute values of the stored debits, the value
\* calculateForAccount computes.
C29_ControllerBalance ==
  \A p \in Procs :
    ControllerImported(p) =>
      /\ account.balance = impliedBalance
      /\ account.balance = calculateForAccount(account, transactions)
(***************************************************************************)
(* SpecCategory: manual creations, deletions and category updates.         *)
(***************************************************************************)
StartCategory(p) ==
  \/ \E ty \in {"debit", "credit"}, a \in Amounts, h \in ManualHashes : Create(p, ty, a, h)
  \/ \E id \in 1..MaxTxId : Delete(p, id)
  \/ \E id \in 1..MaxTxId, c \in Categories : UpdateCategory(p, id, c)

StepCategory(p) ==
  \/ CreateFind(p) \/ CreateInsert(p)
  \/ DeleteFind(p) \/ DeleteRow(p)
  \/ CategoryFind(p) \/ CategorySave(p)
  \/ RecalcRead(p) \/ RecalcWrite(p)
  \/ Raise(p)
  \/ Return(p)

NextCategory == \E p \in Procs : StartCategory(p) \/ StepCategory(p)

SpecCategory == Init /\ [][NextCategory]_vars

\* a transaction without its category
withoutCategory(t) ==
  [id |-> t.id, importBatchId |-> t.importBatchId, amount |-> t.amount, type |-> t.type,
   hash |-> t.hash]

\* updateCategory is the operation p runs, before and after the step
InUpdateCategory(p) == op[p].kind = "updateCategory" /\ op'[p].kind = "updateCategory"

\* C30: updateCategory changes the category of the target transaction and nothing
\* else: amount, type and hash of every transaction, the other transactions, and the
\* account's initialBalance and balance stay as they are; for an unknown id it raises
\* an error and changes nothing.
C30_OnlyCategory ==
  /\ [](\A p \in Procs :
          (op[p].kind = "updateCategory" /\ op[p].pc = "done") =>
            /\ op[p].thrownAt = None => \E t \in transactions : t.id = op[p].target
            /\ op[p].error = "Transaction non trouvee" =>
                 /\ op[p].thrownAt = "category_find"
                 /\ \A t \in transactions : t.id # op[p].target)
  /\ [][\A p \in Procs :
          InUpdateCategory(p) =>
            /\ account' = account
            /\ batches' = batches
            /\ { withoutCategory(t) : t \in transactions' }
                 = { withoutCategory(t) : t \in transactions }
            /\ \A t \in transactions : t.id # op[p].target => t \in transactions'
            /\ (op[p].pc = "category_save" /\ op'[p].thrownAt = None) =>
                 \E t \in transactions' : t.id = op[p].target /\ t.category = op[p].value[1]]_vars

\* updateCategory has raised its error for an id no transaction has
C30_UnknownId ==
  \E p \in Procs :
    /\ op[p].kind = "updateCategory"
    /\ op[p].pc = "done"
    /\ op[p].error = "Transaction non trouvee"
    /\ transactions # {}

\* updateCategory has returned with the category of a stored debit set, the balance
\* still the one the transactions imply
C30_Witness ==
  \E p \in Procs :
    /\ Returned(p)
    /\ op[p].kind = "updateCategory"
    /\ \E t \in transactions :
         t.id = op[p].target /\ t.category = "courses" /\ t.type = "debit"
    /\ account.balance = impliedBalance
====
